---- MODULE Spec2Model ----
(***************************************************************************)
(* Model of src/src/image.js: the Content class, a canvas controller that  *)
(* draws an image pixelated and reveals it step by step.                   *)
(*                                                                         *)
(* The state is the controller's fields (pxIndex, imgRatio, the canvas     *)
(* size), the host's pending timers (the resize debounce timeout and the   *)
(* sequencer timeouts of animatePixels), the two single-shot ScrollTrigger *)
(* registrations, and the environment the handlers read (the container's   *)
(* layout box, the scroll position).  History variables record the draws   *)
(* render() issued and how often each callback ran.                        *)
(*                                                                         *)
(* Numbers: imgRatio is kept as the pair <<img.width, img.height>>, which  *)
(* stands for the double nearest to img.width / img.height.  The quotient  *)
(* w / imgRatio and the product h * imgRatio are doubles too, and          *)
(* RoundQuotient and RoundProduct compute Math.round of them with integer  *)
(* arithmetic.  The pixelation factors are kept in hundredths.             *)
(* newX = (w - newWidth) / 2 may be a half pixel, so the model keeps       *)
(* newX2 = 2 * newX.                                                       *)
(***************************************************************************)
EXTENDS Integers, Sequences, FiniteSets, TLC

(***************************************************************************)
(* Bounds of the model.                                                    *)
(***************************************************************************)
\* Widths and heights 1..MaxDim are explored by the geometry specification.
MaxDim == 4
\* Resize events of the window.
MaxResizes == 2
\* Downward crossings of each scroll trigger's start position.
MaxCrossings == 2

(***************************************************************************)
(* Program constants.                                                      *)
(***************************************************************************)
\* pxFactorValues = [.02, 0.04, 0.06, 0.09, 1.0], in hundredths.
pxFactorValues == <<2, 4, 6, 9, 100>>
PxFactorDen == 100
\* pxFactorValues.length
NumSteps == Len(pxFactorValues)
\* A canvas element is created 300 x 150.
DefaultCanvasW == 300
DefaultCanvasH == 150

(***************************************************************************)
(* Inputs: container boxes <<offsetWidth, offsetHeight>> and images        *)
(* <<width, height>>.                                                      *)
(***************************************************************************)
WrapSizes == {<<400, 200>>, <<300, 300>>}
Images == {<<800, 400>>, <<300, 400>>}
\* Boxes and images for which w / imgRatio or h * imgRatio is a half-integer
\* in exact arithmetic: 9 * 7 / 18 = 3.5, 21 * 17 / 14 = 25.5 and
\* 320 * 427 / 640 = 213.5.
TieSizes == {<<9, 1>>, <<9, 3>>, <<1, 21>>, <<320, 150>>}
TieImages == {<<18, 7>>, <<17, 14>>, <<640, 427>>}
GeomSizes == ((1..MaxDim) \X (1..MaxDim)) \cup WrapSizes \cup TieSizes
GeomImages == ((1..MaxDim) \X (1..MaxDim)) \cup Images \cup TieImages

(***************************************************************************)
(* Arithmetic of render().                                                 *)
(***************************************************************************)
\* A JavaScript Number is an IEEE-754 double: 52 fraction bits, every
\* operation rounded to the nearest double.
FractionBits == 52

\* NaN, the result of arithmetic on undefined.
NaN == -1000000000

\* Math.round of the exact rational n / d for n >= 0, d > 0: the nearest
\* integer, halves upward.
Round(n, d) == (2 * n + d) \div (2 * d)

RECURSIVE Pow2(_)
Pow2(n) == IF n = 0 THEN 1 ELSE 2 * Pow2(n - 1)

\* 2^s modulo d.
RECURSIVE Pow2Mod(_, _)
Pow2Mod(s, d) == IF s = 0 THEN 1 % d ELSE (2 * Pow2Mod(s - 1, d)) % d

\* The binary exponent of n / d: the greatest e with 2^e <= n / d.
RECURSIVE Exponent(_, _)
Exponent(n, d) ==
    IF n >= 2 * d THEN Exponent(n, 2 * d) + 1
    ELSE IF n < d THEN Exponent(2 * n, d) - 1
    ELSE 0

\* The exponent of the doubles just below the half-integer n / d: they are
\* spaced 2^(e - FractionBits) apart.  Of the half-integers only 1/2 is a
\* power of two, where the spacing below halves.
ExponentBelow(n, d) ==
    IF 2 * n = d THEN Exponent(n, d) - 1 ELSE Exponent(n, d)

\* n / d lies exactly halfway between two integers.
IsHalf(n, d) == (2 * n + d) % (2 * d) = 0

\* The rounding error of this.imgRatio = imgWidth / imgHeight.  The double
\* is m / 2^s with s = FractionBits - Exponent(iw, ih) and m the integer
\* nearest to iw * 2^s / ih; the result is m * ih - iw * 2^s, positive when
\* the double lies above iw / ih.
RatioError(iw, ih) ==
    LET s == FractionBits - Exponent(iw, ih)
        t == ((iw % ih) * Pow2Mod(s, ih)) % ih
    IN  IF 2 * t < ih THEN 0 - t ELSE ih - t

\* Math.round(w / this.imgRatio).  The double quotient is so close to
\* w * ih / iw that it rounds like it, except where w * ih / iw is a
\* half-integer x: a ratio above iw / ih puts the quotient below x by
\* w * err * ih / ((iw * 2^s + err) * iw), the division delivers the
\* double below x when that exceeds half the spacing, and Math.round then
\* returns the lower neighbour.
RoundQuotient(w, iw, ih) ==
    LET err == RatioError(iw, ih)
        c == 1 + Exponent(iw, ih) - ExponentBelow(w * ih, iw)
        below == IF c >= 0
                 THEN w * err * ih * Pow2(c) > iw * iw
                 ELSE w * err * ih > iw * iw * Pow2(0 - c)
    IN  IF IsHalf(w * ih, iw) /\ err > 0 /\ below
        THEN Round(w * ih, iw) - 1
        ELSE Round(w * ih, iw)

\* Math.round(h * this.imgRatio).  As RoundQuotient: where h * iw / ih is a
\* half-integer x, a ratio below iw / ih puts the product below x by
\* h * (-err) / (2^s * ih).
RoundProduct(h, iw, ih) ==
    LET err == RatioError(iw, ih)
        c == 1 + Exponent(iw, ih) - ExponentBelow(h * iw, ih)
        below == IF c >= 0
                 THEN h * (0 - err) * Pow2(c) > ih
                 ELSE h * (0 - err) > ih * Pow2(0 - c)
    IN  IF IsHalf(h * iw, ih) /\ err < 0 /\ below
        THEN Round(h * iw, ih) - 1
        ELSE Round(h * iw, ih)

\* Variant of Scaled: the factor before the current one is read.
ScaledPrev(x, idx) ==
    IF idx - 1 \in 1..NumSteps
    THEN (x * pxFactorValues[idx - 1]) \div PxFactorDen
    ELSE NaN

\* Math.floor(x * pxFactorValues[idx]); NaN when idx is outside the array,
\* where the factor read is undefined.
Scaled(x, idx) ==
    IF idx \in 1..NumSteps
    THEN (x * pxFactorValues[idx]) \div PxFactorDen
    ELSE NaN

\* Variant of Render: Math.floor in place of Math.round.
RenderFloor(by, w, h, ratio, px) ==
    LET iw == ratio[1]
        ih == ratio[2]
        wider == w * ih > h * iw
        newWidth == IF wider THEN w
                    ELSE IF ih = 0 THEN NaN ELSE (h * iw) \div ih
        newHeight == IF wider THEN (w * ih) \div iw ELSE h
    IN  [by |-> by, index |-> px, w |-> w, h |-> h,
         newWidth |-> newWidth, newHeight |-> newHeight,
         newX2 |-> IF wider THEN 0
                   ELSE IF newWidth = NaN THEN NaN ELSE w - newWidth,
         newY |-> 0,
         scaledW |-> Scaled(w, px + 1), scaledH |-> Scaled(h, px + 1)]

\* Variant of Render: a negative newX is clamped to 0.
RenderClampX(by, w, h, ratio, px) ==
    LET iw == ratio[1]
        ih == ratio[2]
        wider == w * ih > h * iw
        newWidth == IF wider THEN w
                    ELSE IF ih = 0 THEN NaN ELSE RoundProduct(h, iw, ih)
        newHeight == IF wider THEN RoundQuotient(w, iw, ih) ELSE h
    IN  [by |-> by, index |-> px, w |-> w, h |-> h,
         newWidth |-> newWidth, newHeight |-> newHeight,
         newX2 |-> IF wider \/ w - newWidth < 0 THEN 0
                   ELSE IF newWidth = NaN THEN NaN ELSE w - newWidth,
         newY |-> 0,
         scaledW |-> Scaled(w, px + 1), scaledH |-> Scaled(h, px + 1)]

\* Variant of Render: the comparison is < in place of >.
RenderContain(by, w, h, ratio, px) ==
    LET iw == ratio[1]
        ih == ratio[2]
        wider == w * ih < h * iw
        newWidth == IF wider THEN w
                    ELSE IF ih = 0 THEN NaN ELSE RoundProduct(h, iw, ih)
        newHeight == IF wider THEN RoundQuotient(w, iw, ih) ELSE h
    IN  [by |-> by, index |-> px, w |-> w, h |-> h,
         newWidth |-> newWidth, newHeight |-> newHeight,
         newX2 |-> IF wider THEN 0
                   ELSE IF newWidth = NaN THEN NaN ELSE w - newWidth,
         newY |-> 0,
         scaledW |-> Scaled(w, px + 1), scaledH |-> Scaled(h, px + 1)]

\* The draw render() issues on a canvas w x h for ratio = <<iw, ih>> with
\* this.pxIndex = px (0-based).
Render(by, w, h, ratio, px) ==
    LET iw == ratio[1]
        ih == ratio[2]
        \* newWidth / newHeight > this.imgRatio (false for an undefined ratio)
        wider == w * ih > h * iw
        \* Math.round(h * undefined) is NaN, and so is (w - NaN) / 2
        newWidth == IF wider THEN w
                    ELSE IF ih = 0 THEN NaN ELSE RoundProduct(h, iw, ih)
        newHeight == IF wider THEN RoundQuotient(w, iw, ih) ELSE h
    IN  [by |-> by, index |-> px, w |-> w, h |-> h,
         newWidth |-> newWidth, newHeight |-> newHeight,
         newX2 |-> IF wider THEN 0
                   ELSE IF newWidth = NaN THEN NaN ELSE w - newWidth,
         newY |-> 0,
         scaledW |-> Scaled(w, px + 1), scaledH |-> Scaled(h, px + 1)]

\* No draw has been issued yet.  Beside the draw, the record keeps the
\* number of sequencer timeouts pending when render() was called.
NoRender ==
    [by |-> "none", index |-> 0, w |-> 0, h |-> 0, newWidth |-> 0,
     newHeight |-> 0, newX2 |-> 0, newY |-> 0, scaledW |-> 0, scaledH |-> 0,
     pending |-> 0]

\* Variants of AnimateGuard: <= in place of <, and length - 1 in place of
\* length.
AnimateGuardInclusive(px) == px <= NumSteps
AnimateGuardShort(px) == px < NumSteps - 1

\* animatePixels' test: this.pxIndex < this.pxFactorValues.length
AnimateGuard(px) == px < NumSteps

\* Variants of ResizeIndex: length and length - 2.
ResizeIndexPastEnd == NumSteps
ResizeIndexLow == NumSteps - 2

\* The resize handler's assignment: this.pxFactorValues.length - 1
ResizeIndex == NumSteps - 1

\* Variant of InitialPxIndex: the field starts at the last index.
InitialPxIndexLast == NumSteps - 1

\* pxIndex = 0, the field's initial value.
InitialPxIndex == 0

VARIABLES
    imgState,       \* "loading", "loaded" or "error": the Image's load
    img,            \* <<img.width, img.height>> of the image file
    imgRatio,       \* this.imgRatio as <<num, den>>; <<0, 0>> while undefined
    wrap,           \* <<canvasWrap.offsetWidth, canvasWrap.offsetHeight>>
    canvas,         \* <<canvas.width, canvas.height>>
    pxIndex,        \* this.pxIndex
    listening,      \* initEvents has registered the resize listener
    resizeTimeout,  \* number of pending debounce timeouts
    seqTimers,      \* number of pending animatePixels timeouts
    enterTrigger,   \* the 'top top' ScrollTrigger: "none", "armed", "killed"
    showTrigger,    \* the 'top bottom' ScrollTrigger
    opacity,        \* canvasWrap's opacity as set by gsap.set: 0 or 1
    scrollPos,      \* 0: canvas below the viewport, 1: past 'top bottom',
                    \* 2: past 'top top'
    crossings,      \* <<downward crossings of 'top bottom', of 'top top'>>
    lastRender,     \* the last draw render() issued
    renderCount,    \* number of render() calls
    enterCount,     \* number of runs of the 'top top' onEnter callback
    showCount,      \* number of runs of the 'top bottom' onEnter callback
    seqFired,       \* number of animatePixels timeouts that fired
    resizeEvents,   \* number of resize events of the window
    resizeFired,    \* number of runs of the debounced resize handler
    burst           \* resize events the listener received since the
                    \* handler last ran

vars == <<imgState, img, imgRatio, wrap, canvas, pxIndex, listening,
          resizeTimeout, seqTimers, enterTrigger, showTrigger, opacity,
          scrollPos, crossings, lastRender, renderCount, enterCount,
          showCount, seqFired, resizeEvents, resizeFired, burst>>

\* The state after the constructor returned, for a container box among
\* sizes, an image file among images and a scroll position among scrolls.
InitWith(sizes, images, scrolls) ==
    /\ imgState = "loading"
    /\ img \in images
    /\ imgRatio = <<0, 0>>
    /\ wrap \in sizes
    /\ canvas = <<DefaultCanvasW, DefaultCanvasH>>
    /\ pxIndex = InitialPxIndex
    /\ listening = FALSE
    /\ resizeTimeout = 0
    /\ seqTimers = 0
    /\ enterTrigger = "none"
    /\ showTrigger = "none"
    /\ opacity = 0
    /\ scrollPos \in scrolls
    /\ crossings = <<0, 0>>
    /\ lastRender = NoRender
    /\ renderCount = 0
    /\ enterCount = 0
    /\ showCount = 0
    /\ seqFired = 0
    /\ resizeEvents = 0
    /\ resizeFired = 0
    /\ burst = 0

Init == InitWith(WrapSizes, Images, 0..2)

\* this.render(): one draw on the canvas cv at index px, called while
\* pending sequencer timeouts are armed.
DoRender(by, cv, ratio, px, pending) ==
    /\ lastRender' =
           Render(by, cv[1], cv[2], ratio, px) @@ [pending |-> pending]
    /\ renderCount' = renderCount + 1

\* img.onload: the ratio, setCanvasSize, render, initEvents.
ImgLoad ==
    /\ imgState = "loading"
    /\ imgState' = "loaded"
    /\ imgRatio' = img
    /\ canvas' = wrap
    /\ DoRender("load", wrap, img, pxIndex, seqTimers)
    /\ listening' = TRUE
    /\ enterTrigger' = "armed"
    /\ showTrigger' = "armed"
    /\ UNCHANGED <<img, wrap, pxIndex, resizeTimeout, seqTimers, opacity,
                   scrollPos, crossings, enterCount, showCount, seqFired,
                   resizeEvents, resizeFired,
                   burst>>

\* The image fails to load: no onerror handler exists, nothing runs.
ImgError ==
    /\ imgState = "loading"
    /\ imgState' = "error"
    /\ UNCHANGED <<img, imgRatio, wrap, canvas, pxIndex, listening,
                   resizeTimeout, seqTimers, enterTrigger, showTrigger,
                   opacity, scrollPos, crossings, lastRender, renderCount,
                   enterCount, showCount, seqFired, resizeEvents,
                   resizeFired,
                   burst>>

\* The window's resize event: the container's box becomes s, and the
\* listener, when registered, clears the pending debounce timeout and arms
\* a new one.
WindowResizeWith(registered, s) ==
    /\ resizeEvents < MaxResizes
    /\ resizeEvents' = resizeEvents + 1
    /\ wrap' = s
    /\ IF registered
       THEN /\ resizeTimeout' =
                   (IF resizeTimeout > 0 THEN resizeTimeout - 1 ELSE 0) + 1
            /\ burst' = burst + 1
       ELSE UNCHANGED <<resizeTimeout, burst>>
    /\ UNCHANGED <<imgState, img, imgRatio, canvas, pxIndex, listening,
                   seqTimers, enterTrigger, showTrigger, opacity, scrollPos,
                   crossings, lastRender, renderCount, enterCount, showCount,
                   seqFired, resizeFired>>

\* Variant of WindowResize: the listener arms a timeout without clearing
\* the pending one.
WindowResizeNoClear(s) ==
    /\ resizeEvents < MaxResizes
    /\ resizeEvents' = resizeEvents + 1
    /\ wrap' = s
    /\ IF listening
       THEN /\ resizeTimeout' = resizeTimeout + 1
            /\ burst' = burst + 1
       ELSE UNCHANGED <<resizeTimeout, burst>>
    /\ UNCHANGED <<imgState, img, imgRatio, canvas, pxIndex, listening,
                   seqTimers, enterTrigger, showTrigger, opacity, scrollPos,
                   crossings, lastRender, renderCount, enterCount, showCount,
                   seqFired, resizeFired>>

\* Variant of WindowResize: the listener is registered by the constructor.
WindowResizeEarly(s) == WindowResizeWith(TRUE, s)

\* The listener exists once initEvents has run.
WindowResize(s) == WindowResizeWith(listening, s)

\* Variant of ResizeFire: the handler cancels the sequencer's timeout.
ResizeFireCancels ==
    /\ resizeTimeout > 0
    /\ resizeTimeout' = resizeTimeout - 1
    /\ canvas' = wrap
    /\ pxIndex' = ResizeIndex
    /\ seqTimers' = 0
    /\ DoRender("resize", wrap, imgRatio, ResizeIndex, 0)
    /\ resizeFired' = resizeFired + 1
    /\ burst' = 0
    /\ UNCHANGED <<imgState, img, imgRatio, wrap, listening, enterTrigger,
                   showTrigger, opacity, scrollPos, crossings, enterCount,
                   showCount, seqFired, resizeEvents>>

\* The debounce timeout fires: setCanvasSize, the index snap, render.
ResizeFire ==
    /\ resizeTimeout > 0
    /\ resizeTimeout' = resizeTimeout - 1
    /\ canvas' = wrap
    /\ pxIndex' = ResizeIndex
    /\ DoRender("resize", wrap, imgRatio, ResizeIndex, seqTimers)
    /\ resizeFired' = resizeFired + 1
    /\ burst' = 0
    /\ UNCHANGED <<imgState, img, imgRatio, wrap, listening, seqTimers,
                   enterTrigger, showTrigger, opacity, scrollPos, crossings,
                   enterCount, showCount, seqFired, resizeEvents>>

\* The page scrolls to position p.
Scroll(p) ==
    /\ p # scrollPos
    /\ scrollPos' = p
    /\ crossings' =
         <<crossings[1] + (IF scrollPos < 1 /\ p >= 1 THEN 1 ELSE 0),
           crossings[2] + (IF scrollPos < 2 /\ p = 2 THEN 1 ELSE 0)>>
    /\ crossings'[1] <= MaxCrossings
    /\ crossings'[2] <= MaxCrossings
    /\ UNCHANGED <<imgState, img, imgRatio, wrap, canvas, pxIndex, listening,
                   resizeTimeout, seqTimers, enterTrigger, showTrigger,
                   opacity, lastRender, renderCount, enterCount, showCount,
                   seqFired, resizeEvents, resizeFired,
                   burst>>

\* Variant of AnimatePixels: setTimeout is called before render.
AnimatePixelsTimerFirst(px, pending) ==
    IF AnimateGuard(px)
    THEN /\ seqTimers' = pending + 1
         /\ DoRender("seq", canvas, imgRatio, px, pending + 1)
    ELSE /\ seqTimers' = pending
         /\ UNCHANGED <<lastRender, renderCount>>

\* animatePixels() at this.pxIndex = px, with pending sequencer timeouts
\* left: render and arm a timeout, or nothing.
AnimatePixels(px, pending) ==
    IF AnimateGuard(px)
    THEN /\ DoRender("seq", canvas, imgRatio, px, pending)
         /\ seqTimers' = pending + 1
    ELSE /\ seqTimers' = pending
         /\ UNCHANGED <<lastRender, renderCount>>

\* The 'top top' ScrollTrigger's onEnter: pxIndex = 0, animatePixels();
\* once: true kills the trigger after the callback.
EnterTopTopWith(once) ==
    /\ enterTrigger = "armed"
    /\ scrollPos = 2
    /\ enterTrigger' = IF once THEN "killed" ELSE "armed"
    /\ enterCount' = enterCount + 1
    /\ pxIndex' = 0
    /\ AnimatePixels(0, seqTimers)
    /\ UNCHANGED <<imgState, img, imgRatio, wrap, canvas, listening,
                   resizeTimeout, showTrigger, opacity, scrollPos, crossings,
                   showCount, seqFired, resizeEvents, resizeFired,
                   burst>>

\* Variant of EnterTopTop: the callback does not reset pxIndex.
EnterTopTopNoReset ==
    /\ enterTrigger = "armed"
    /\ scrollPos = 2
    /\ enterTrigger' = "killed"
    /\ enterCount' = enterCount + 1
    /\ pxIndex' = pxIndex
    /\ AnimatePixels(pxIndex, seqTimers)
    /\ UNCHANGED <<imgState, img, imgRatio, wrap, canvas, listening,
                   resizeTimeout, showTrigger, opacity, scrollPos, crossings,
                   showCount, seqFired, resizeEvents, resizeFired, burst>>

\* Variant of EnterTopTop: once: true is missing.
EnterTopTopRepeat == EnterTopTopWith(FALSE)

EnterTopTop == EnterTopTopWith(TRUE)

\* The 'top bottom' ScrollTrigger's onEnter: gsap.set(canvasWrap,
\* {opacity: 1}); once: true.
ShowTopBottomWith(once) ==
    /\ showTrigger = "armed"
    /\ scrollPos >= 1
    /\ showTrigger' = IF once THEN "killed" ELSE "armed"
    /\ showCount' = showCount + 1
    /\ opacity' = 1
    /\ UNCHANGED <<imgState, img, imgRatio, wrap, canvas, pxIndex, listening,
                   resizeTimeout, seqTimers, enterTrigger, scrollPos,
                   crossings, lastRender, renderCount, enterCount, seqFired,
                   resizeEvents, resizeFired,
                   burst>>

ShowTopBottom == ShowTopBottomWith(TRUE)

\* A sequencer timeout fires: this.pxIndex += step, animatePixels().
SeqTimerFireWith(step) ==
    /\ seqTimers > 0
    /\ pxIndex' = pxIndex + step
    /\ seqFired' = seqFired + 1
    /\ AnimatePixels(pxIndex + step, seqTimers - 1)
    /\ UNCHANGED <<imgState, img, imgRatio, wrap, canvas, listening,
                   resizeTimeout, enterTrigger, showTrigger, opacity,
                   scrollPos, crossings, enterCount, showCount, resizeEvents,
                   resizeFired,
                   burst>>

\* Variant of SeqTimerFire: the step also resizes the canvas to the
\* container, as a render() that called setCanvasSize would.
SeqTimerFireSizes ==
    /\ seqTimers > 0
    /\ pxIndex' = pxIndex + 1
    /\ seqFired' = seqFired + 1
    /\ canvas' = wrap
    /\ IF AnimateGuard(pxIndex + 1)
       THEN /\ DoRender("seq", wrap, imgRatio, pxIndex + 1, seqTimers - 1)
            /\ seqTimers' = seqTimers
       ELSE /\ seqTimers' = seqTimers - 1
            /\ UNCHANGED <<lastRender, renderCount>>
    /\ UNCHANGED <<imgState, img, imgRatio, wrap, listening, resizeTimeout,
                   enterTrigger, showTrigger, opacity, scrollPos, crossings,
                   enterCount, showCount, resizeEvents, resizeFired, burst>>

\* Variants of SeqTimerFire: the increment is missing; the callback only
\* re-arms its timeout.
SeqTimerFireStale == SeqTimerFireWith(0)
SeqTimerFireRearmOnly == seqTimers > 0 /\ UNCHANGED vars

\* The timeout's callback: this.pxIndex++; this.animatePixels().
SeqTimerFire == SeqTimerFireWith(1)

Next ==
    \/ ImgLoad
    \/ ImgError
    \/ \E s \in WrapSizes : WindowResize(s)
    \/ ResizeFire
    \/ \E p \in 0..2 : Scroll(p)
    \/ EnterTopTop
    \/ ShowTopBottom
    \/ SeqTimerFire

Spec == Init /\ [][Next]_vars

\* The host fires every armed timeout.
FairSpec == Spec /\ WF_vars(SeqTimerFire) /\ WF_vars(ResizeFire)

\* The geometry of render() over all container boxes and images: the load
\* and the resize path, without scrolling.
GeomInit == InitWith(GeomSizes, GeomImages, {0})

GeomNext ==
    \/ ImgLoad
    \/ ImgError
    \/ \E s \in GeomSizes : WindowResize(s)
    \/ ResizeFire

GeomSpec == GeomInit /\ [][GeomNext]_vars

(***************************************************************************)
(* The claims.                                                             *)
(***************************************************************************)

\* C1 as stated: the single render of the load callback, before any
\* viewport or resize event, is done at the last index (scale 1.0).
C1_Original ==
    (imgState = "loaded" /\ resizeFired = 0 /\ enterCount = 0) =>
        (renderCount = 1 /\ lastRender.index = NumSteps - 1)

\* C1 (amended): when the image load completes, the load callback performs
\* exactly one render, and before any viewport entry or resize handler that
\* render is the only one and was done at pxIndex = 0, the first and most
\* pixelated level (scale 0.02), not at the last index.
C1_LoadRendersAtFirstIndex ==
    (imgState = "loaded" /\ resizeFired = 0 /\ enterCount = 0) =>
        /\ renderCount = 1
        /\ lastRender.by = "load"
        /\ lastRender.index = 0
        /\ pxIndex = 0
        /\ lastRender.scaledW =
               (lastRender.w * pxFactorValues[1]) \div PxFactorDen
        /\ lastRender.scaledH =
               (lastRender.h * pxFactorValues[1]) \div PxFactorDen

\* The load callback has rendered the 400 x 200 canvas at 8 x 4.
C1_Witness ==
    /\ imgState = "loaded"
    /\ lastRender.by = "load"
    /\ lastRender.w = 400 /\ lastRender.h = 200
    /\ lastRender.scaledW = 8 /\ lastRender.scaledH = 4

\* C2: in every reachable state 0 <= pxIndex <= pxFactorValues.length.
C2_IndexInRange == pxIndex >= 0 /\ pxIndex <= NumSteps

\* The index has reached the length after a resize handler ran, and a
\* debounce timeout is pending again.
C2_Witness == pxIndex = NumSteps /\ resizeFired >= 1 /\ resizeTimeout = 1

\* C3: viewport entry starts the sequencer at index 0; every sequencer
\* timeout that fires finds the index below the length and increases it by
\* exactly 1; when the index is the length no sequencer timeout is pending,
\* and once the sequencer has stopped it arms no timeout and renders no
\* more (only the resize handler renders).
C3_SequencerSteps ==
    [][/\ (enterCount' # enterCount => pxIndex' = 0 /\ seqTimers' = 1)
       /\ (seqFired' # seqFired =>
              pxIndex < NumSteps /\ pxIndex' = pxIndex + 1)
       /\ (pxIndex' = NumSteps => seqTimers' = 0)
       /\ ((enterCount = 1 /\ seqTimers = 0) =>
              /\ seqTimers' = 0
              /\ (renderCount' # renderCount => lastRender'.by = "resize"))
      ]_vars

\* The whole sequence has run: five timeouts fired, the index is 5, no
\* timeout is pending and the last draw is the sequencer's.
C3_Witness ==
    /\ enterCount = 1
    /\ seqFired = NumSteps
    /\ pxIndex = NumSteps
    /\ seqTimers = 0
    /\ lastRender.by = "seq"

\* C4: every run of the debounced resize handler sets pxIndex to
\* length - 1 and calls render exactly once, at that index (scale 1.0) and
\* on the canvas resized to the container.
C4_ResizeSnaps ==
    [][resizeFired' # resizeFired =>
          /\ pxIndex' = NumSteps - 1
          /\ renderCount' = renderCount + 1
          /\ lastRender'.by = "resize"
          /\ lastRender'.index = NumSteps - 1
          /\ lastRender'.w = wrap[1] /\ lastRender'.h = wrap[2]
          /\ lastRender'.scaledW = wrap[1] /\ lastRender'.scaledH = wrap[2]
      ]_vars

\* The handler ran once, after the finished sequence had left the index at
\* the length.
C4_Witness ==
    /\ resizeFired = 1
    /\ seqFired = NumSteps
    /\ pxIndex = NumSteps - 1
    /\ lastRender.by = "resize"

\* C5: the 'top top' callback and the 'top bottom' callback each run at
\* most once however often the crossing repeats, so at most one chain of
\* sequencer timeouts exists: at most one is pending and at most length fire.
C5_SingleShot ==
    /\ enterCount <= 1
    /\ showCount <= 1
    /\ seqTimers <= 1
    /\ seqFired <= NumSteps
    /\ (enterCount = 1 <=> enterTrigger = "killed")
    /\ (showCount = 1 <=> showTrigger = "killed")

\* Both callbacks have run and each start position was crossed twice.
C5_Witness ==
    /\ enterCount = 1
    /\ showCount = 1
    /\ crossings[1] >= 2 /\ crossings[2] >= 2
    /\ scrollPos = 2

\* C6: while the image is not loaded (also when the load failed) nothing
\* has rendered, pxIndex is unchanged, no timeout is pending and no
\* callback has run, whatever resize events and crossings occurred.
C6_NothingBeforeLoad ==
    imgState # "loaded" =>
        /\ renderCount = 0
        /\ lastRender = NoRender
        /\ pxIndex = 0
        /\ seqTimers = 0
        /\ resizeTimeout = 0
        /\ resizeFired = 0
        /\ enterCount = 0
        /\ showCount = 0
        /\ opacity = 0
        /\ canvas = <<DefaultCanvasW, DefaultCanvasH>>

\* The load failed, the window was resized and the page scrolled past the
\* 'top top' position.
C6_Witness ==
    /\ imgState = "error"
    /\ resizeEvents >= 1
    /\ crossings[2] >= 1
    /\ scrollPos = 2

\* C7 as stated: after the render at the last index no timeout is armed,
\* and with no resize handler run the sequence ends after length - 1
\* firings with pxIndex = length - 1.
C7_Original ==
    /\ (lastRender.by = "seq" /\ lastRender.index = NumSteps - 1) =>
           seqTimers = 0
    /\ (enterCount = 1 /\ seqTimers = 0 /\ resizeFired = 0) =>
           (seqFired = NumSteps - 1 /\ pxIndex = NumSteps - 1)

\* C7 (amended): after rendering the last index the sequencer arms one more
\* timeout, whose firing only increments the index; with no resize handler
\* run, exactly length timeouts fire after viewport entry and sequencing
\* stops with pxIndex = length (5 firings and index 5), the last draw being
\* the one at index length - 1.
C7_SequenceEnds ==
    /\ (enterCount = 1 /\ resizeFired = 0 /\ seqTimers = 1) =>
           /\ pxIndex = seqFired
           /\ pxIndex < NumSteps
           /\ lastRender.by = "seq" /\ lastRender.index = pxIndex
    /\ (enterCount = 1 /\ resizeFired = 0 /\ seqTimers = 0) =>
           /\ seqFired = NumSteps
           /\ pxIndex = NumSteps
           /\ lastRender.by = "seq" /\ lastRender.index = NumSteps - 1

\* The sequence has ended without any resize handler.
C7_Witness ==
    /\ enterCount = 1
    /\ resizeFired = 0
    /\ seqTimers = 0
    /\ seqFired = NumSteps
    /\ renderCount = NumSteps + 1

\* C8 as stated: when the resize handler has rendered at the last index
\* while a sequencer timeout is pending, the firing of that timeout renders
\* at an index below length - 1.
C8_Original ==
    [][(lastRender.by = "resize" /\ seqTimers > 0 /\ seqFired' # seqFired) =>
          /\ renderCount' = renderCount + 1
          /\ lastRender'.by = "seq"
          /\ lastRender'.index < NumSteps - 1
      ]_vars

\* C8 (amended): the resize handler can render at the last index while a
\* sequencer timeout is pending, and the timeout is not cancelled; but when
\* it fires it reads the index the handler set, moves it from length - 1 to
\* length, renders nothing and arms no timeout.  No sequencer timeout renders
\* below the last index after a resize render.
C8_StaleTimerRendersNothing ==
    [][/\ (lastRender.by = "resize" /\ seqTimers > 0) =>
              pxIndex = NumSteps - 1
       /\ (lastRender.by = "resize" /\ seqFired' # seqFired) =>
              /\ pxIndex' = NumSteps
              /\ seqTimers' = 0
              /\ lastRender' = lastRender
              /\ renderCount' = renderCount
      ]_vars

\* The handler ran during the sequence and the pending timeout has fired:
\* the sequence was cut short and the handler's draw is still the last.
C8_Witness ==
    /\ lastRender.by = "resize"
    /\ pxIndex = NumSteps
    /\ seqFired >= 1 /\ seqFired < NumSteps
    /\ seqTimers = 0

\* C9: under fair firing of armed timeouts, viewport entry leads to Done:
\* from some point on no sequencer timeout is pending and the trigger is
\* dead; in Done nothing but a run of the resize handler changes the index
\* or renders.
C9_EventuallyDone ==
    /\ [](enterCount >= 1 =>
             <>[](seqTimers = 0 /\ enterTrigger = "killed"))
    /\ [][(enterCount >= 1 /\ seqTimers = 0
           /\ (pxIndex' # pxIndex \/ renderCount' # renderCount)) =>
             resizeFired' = resizeFired + 1]_vars

\* Done was reached although resize handlers ran.
C9_Witness ==
    /\ enterCount = 1
    /\ seqTimers = 0
    /\ resizeTimeout = 0
    /\ resizeFired = MaxResizes

\* C10 as stated: exactly one of newX and newY is non-zero in every draw,
\* and the adjusted dimension is the aspect-correct size within rounding.
C10_Original ==
    lastRender.by # "none" =>
        LET r == lastRender
            iw == imgRatio[1]
            ih == imgRatio[2]
            dh == 2 * r.newHeight * iw - 2 * r.w * ih
            dw == 2 * r.newWidth * ih - 2 * r.h * iw
        IN  /\ (r.newX2 # 0) # (r.newY # 0)
            /\ IF r.w * ih > r.h * iw
               THEN r.newWidth = r.w /\ dh <= iw /\ -dh <= iw
               ELSE r.newHeight = r.h /\ dw <= ih /\ -dw <= ih

\* C10 (amended): in every draw newY is 0, so at most one offset is
\* non-zero; newX is non-zero exactly when the surface ratio w/h is not
\* greater than the image ratio and round(h * imgRatio) differs from w, and
\* it is then (w - newWidth) / 2; the adjusted dimension (newHeight when
\* w/h > imgRatio, newWidth otherwise) is within 1/2 of the aspect-correct
\* size and the other dimension is the surface's.
C10_Letterbox ==
    lastRender.by # "none" =>
        LET r == lastRender
            iw == imgRatio[1]
            ih == imgRatio[2]
            dh == 2 * r.newHeight * iw - 2 * r.w * ih
            dw == 2 * r.newWidth * ih - 2 * r.h * iw
        IN  /\ r.newY = 0
            /\ IF r.w * ih > r.h * iw
               THEN /\ r.newWidth = r.w
                    /\ dh <= iw /\ -dh <= iw
                    /\ r.newX2 = 0
               ELSE /\ r.newHeight = r.h
                    /\ dw <= ih /\ -dw <= ih
                    /\ r.newX2 = r.w - r.newWidth

\* A draw on a 2 x 3 canvas of a square image: newWidth = 3, newX = -1/2.
C10_Witness ==
    /\ lastRender.by = "resize"
    /\ lastRender.w = 2 /\ lastRender.h = 3
    /\ imgRatio = <<1, 1>>
    /\ lastRender.newWidth = 3
    /\ lastRender.newX2 = -1

\* C11: when w/h is not greater than the image ratio, render computes
\* newWidth = Math.round(h * imgRatio), newHeight = h,
\* newX = (w - newWidth) / 2 and newY = 0, also when newX is negative.
\* Math.round of the double product is an integer n within 1/2 of
\* h * iw / ih; it is the one with n <= h * iw / ih + 1/2 < n + 1 unless
\* h * iw / ih is a half-integer and the double imgRatio lies below iw / ih,
\* where the product can fall short of the half (a 1 x 21 surface and the
\* 17 x 14 image give 25 for 25.5, and newX = -12).  A 300 x 300 surface and
\* ratio 2:1 give newWidth = 600 and newX = -150.
C11_NarrowBranch ==
    lastRender.by # "none" =>
        LET r == lastRender
            iw == imgRatio[1]
            ih == imgRatio[2]
        IN  /\ (r.w * ih <= r.h * iw) =>
                  /\ 2 * r.newWidth * ih <= 2 * r.h * iw + ih
                  /\ 2 * r.h * iw - ih <= 2 * r.newWidth * ih
                  /\ (~IsHalf(r.h * iw, ih) \/ RatioError(iw, ih) >= 0) =>
                         2 * r.h * iw + ih < 2 * (r.newWidth + 1) * ih
                  /\ r.newHeight = r.h
                  /\ r.newX2 = r.w - r.newWidth
                  /\ r.newY = 0
            /\ (r.w = 300 /\ r.h = 300 /\ iw = 2 * ih) =>
                  (r.newWidth = 600 /\ r.newX2 = -300)
            /\ (r.w = 1 /\ r.h = 21 /\ imgRatio = <<17, 14>>) =>
                  (r.newWidth = 25 /\ r.newX2 = -24)

\* The 300 x 300 surface was drawn for the 800 x 400 image: 600 wide at
\* newX = -150.
C11_Witness ==
    /\ lastRender.by = "load"
    /\ lastRender.w = 300 /\ lastRender.h = 300
    /\ imgRatio = <<800, 400>>
    /\ lastRender.newWidth = 600
    /\ lastRender.newX2 = -300

\* C12: a render leaves the canvas dimensions, pxIndex and the pending
\* timeouts as its caller set them: every step renders at most once, on the
\* canvas as it is after the step and at the index held after the step (in
\* 0..length-1); a sequencer render changes neither the canvas nor the
\* debounce timeout, a load or resize render changes no sequencer timeout;
\* and the canvas dimensions change only in the load callback and the resize
\* handler, to the container's box (setCanvasSize).
C12_RenderFrame ==
    [][/\ (renderCount' # renderCount) =>
              /\ renderCount' = renderCount + 1
              /\ <<lastRender'.w, lastRender'.h>> = canvas'
              /\ lastRender'.index = pxIndex'
              /\ lastRender'.index >= 0 /\ lastRender'.index < NumSteps
       /\ (renderCount' # renderCount /\ lastRender'.by = "seq") =>
              /\ canvas' = canvas
              /\ resizeTimeout' = resizeTimeout
              /\ seqTimers' = lastRender'.pending + 1
       /\ (renderCount' # renderCount /\ lastRender'.by # "seq") =>
              /\ canvas' = wrap
              /\ seqTimers' = seqTimers
       /\ (canvas' # canvas) =>
              /\ imgState' # imgState \/ resizeFired' # resizeFired
              /\ canvas' = wrap
      ]_vars

\* The sequencer has rendered on a canvas that differs from the container's
\* box (a resize event is waiting for its debounce).
C12_Witness ==
    /\ lastRender.by = "seq"
    /\ seqFired >= 1
    /\ canvas # wrap
    /\ <<lastRender.w, lastRender.h>> = canvas
    /\ resizeTimeout = 1

\* C13: the viewport-entry callback sets pxIndex to 0 whatever it was (also
\* length - 1 left by an earlier resize), and in the same step the sequencer
\* renders once at index 0, called while no sequencer timeout is armed and
\* before any has fired, and then arms its first timeout.
C13_EntryRendersAtZero ==
    [][enterCount' # enterCount =>
          /\ pxIndex' = 0
          /\ renderCount' = renderCount + 1
          /\ lastRender'.by = "seq"
          /\ lastRender'.index = 0
          /\ lastRender'.pending = 0
          /\ lastRender'.scaledW =
                 (canvas[1] * pxFactorValues[1]) \div PxFactorDen
          /\ seqTimers = 0 /\ seqTimers' = 1
          /\ seqFired = 0 /\ seqFired' = 0
      ]_vars

\* The entry followed a resize handler that had left the index at
\* length - 1: the entry's draw at index 0 is the last one.
C13_Witness ==
    /\ enterCount = 1
    /\ resizeFired >= 1
    /\ seqFired = 0
    /\ seqTimers = 1
    /\ pxIndex = 0
    /\ lastRender.by = "seq" /\ lastRender.index = 0

\* C14: each resize event the listener receives clears the pending debounce
\* timeout before arming a new one, so at most one is pending, and exactly
\* one while a burst of events is unhandled; the burst of k >= 1 events ends
\* with one run of the handler (one setCanvasSize, one index snap, one
\* render) that leaves no debounce timeout behind, and under fair timers
\* that run happens.
C14_Debounce ==
    /\ [](resizeTimeout <= 1 /\ (resizeTimeout = 1 <=> burst >= 1))
    /\ [][/\ (burst' = burst + 1) => resizeTimeout' = 1
          /\ (resizeFired' # resizeFired) =>
                 /\ burst >= 1 /\ burst' = 0
                 /\ resizeTimeout' = 0
                 /\ resizeFired' = resizeFired + 1
                 /\ renderCount' = renderCount + 1
                 /\ canvas' = wrap
                 /\ pxIndex' = NumSteps - 1
         ]_vars
    /\ (burst >= 1 ~> burst = 0)

\* Two resize events reached the listener with no handler run between
\* them, and a single timeout is pending.
C14_Witness ==
    /\ burst = 2
    /\ resizeTimeout = 1
    /\ resizeFired = 0

\* C15: sequencer renders are strictly sequential under any interleaving
\* with resizes: at most one sequencer timeout is pending; a step of the
\* sequencer (the entry or a timeout firing) arms a timeout exactly when it
\* rendered, and its render was called while no sequencer timeout was armed
\* (the render precedes the setTimeout); consecutive sequencer renders are
\* at consecutive indices.
C15_SequentialRenders ==
    /\ [](seqTimers <= 1)
    /\ [][(enterCount' # enterCount \/ seqFired' # seqFired) =>
             /\ IF seqTimers' = 1
                THEN /\ renderCount' = renderCount + 1
                     /\ lastRender'.by = "seq"
                     /\ lastRender'.pending = 0
                     /\ lastRender'.index = pxIndex'
                ELSE /\ seqTimers' = 0
                     /\ renderCount' = renderCount
             /\ (seqFired' # seqFired /\ renderCount' # renderCount
                 /\ lastRender.by = "seq") =>
                    lastRender'.index = lastRender.index + 1
         ]_vars

\* The sequencer has rendered its third step and armed the next timeout
\* while a resize event waits for its debounce.
C15_Witness ==
    /\ seqTimers = 1
    /\ seqFired = 2
    /\ lastRender.by = "seq" /\ lastRender.index = 2
    /\ lastRender.pending = 0
    /\ resizeTimeout = 1

\* C16: a resize event and a run of the resize handler leave the
\* sequencer's timeouts as they are: none is cancelled, none is armed
\* and none fires, so a timeout pending before is pending after, and a
\* resize in Done (or before the entry) starts no sequencer; the entry
\* trigger is not touched either.
C16_ResizeKeepsSequencer ==
    [][(resizeEvents' # resizeEvents \/ resizeFired' # resizeFired) =>
          /\ seqTimers' = seqTimers
          /\ seqFired' = seqFired
          /\ enterTrigger' = enterTrigger
          /\ enterCount' = enterCount
          /\ (resizeFired' # resizeFired =>
                 lastRender'.pending = seqTimers)
      ]_vars

\* The handler ran while a sequencer timeout was pending, and the timeout
\* is still pending.
C16_Witness ==
    /\ lastRender.by = "resize"
    /\ lastRender.pending = 1
    /\ seqTimers = 1
    /\ pxIndex = NumSteps - 1

\* C17 as stated: at the last index (scale 1.0) the reduced-size draw
\* dimensions equal the letterboxed target's width and height, for every
\* surface size and image ratio.
C17_Original ==
    (lastRender.by # "none" /\ lastRender.index = NumSteps - 1) =>
        /\ lastRender.scaledW = lastRender.newWidth
        /\ lastRender.scaledH = lastRender.newHeight

\* C17 (amended): at the last index (scale 1.0) the reduced-size draw
\* dimensions are the surface's own, floor(w * 1.0) = w and
\* floor(h * 1.0) = h; they equal the target rectangle's newWidth and
\* newHeight whenever the surface ratio matches the image ratio within
\* rounding (w / imgRatio < h + 1/2 and h * imgRatio < w + 1/2) and only if
\* it does so within 1/2 (at exactly 1/2 the doubles decide: a 9 x 3 surface
\* and the 18 x 7 image give newHeight = 3 for 3.5); otherwise the target is
\* larger in its adjusted dimension.
C17_FullScale ==
    (lastRender.by # "none" /\ lastRender.index = NumSteps - 1) =>
        LET r == lastRender
            iw == imgRatio[1]
            ih == imgRatio[2]
            same == r.scaledW = r.newWidth /\ r.scaledH = r.newHeight
            matches == /\ 2 * r.w * ih < (2 * r.h + 1) * iw
                       /\ 2 * r.h * iw < (2 * r.w + 1) * ih
            nearly == /\ 2 * r.w * ih <= (2 * r.h + 1) * iw
                      /\ 2 * r.h * iw <= (2 * r.w + 1) * ih
        IN  /\ r.scaledW = r.w
            /\ r.scaledH = r.h
            /\ matches => same
            /\ same => nearly
            /\ (r.w = 9 /\ r.h = 3 /\ imgRatio = <<18, 7>>) => same
            /\ r.newWidth >= r.scaledW
            /\ r.newHeight >= r.scaledH

\* The resize handler drew the 300 x 300 surface at full scale for the 2:1
\* image: the reduced draw is 300 x 300, the target 600 x 300.
C17_Witness ==
    /\ lastRender.by = "resize"
    /\ lastRender.index = NumSteps - 1
    /\ imgRatio = <<800, 400>>
    /\ lastRender.scaledW = 300 /\ lastRender.scaledH = 300
    /\ lastRender.newWidth = 600 /\ lastRender.newHeight = 300

\* C18: every render, from the load callback, the sequencer or the resize
\* handler, is called with pxIndex in 0..length-1, so the factor it reads
\* is defined (no NaN size); render is never called at index = length.
C18_RenderIndexDefined ==
    /\ (renderCount > 0) <=> (lastRender.by # "none")
    /\ lastRender.by # "none" =>
           /\ lastRender.index >= 0
           /\ lastRender.index <= NumSteps - 1
           /\ lastRender.scaledW >= 0
           /\ lastRender.scaledH >= 0
           /\ lastRender.scaledW =
                  (lastRender.w * pxFactorValues[lastRender.index + 1])
                      \div PxFactorDen

\* The index is the length after the sequence, the last draw was the
\* sequencer's at length - 1, and a resize is about to render again.
C18_Witness ==
    /\ pxIndex = NumSteps
    /\ lastRender.by = "seq"
    /\ lastRender.index = NumSteps - 1
    /\ resizeTimeout = 1

\* C19: once the viewport entry has occurred and neither a sequencer nor a
\* debounce timeout is pending, the most recent render was at index
\* length - 1 (scale 1.0: the reduced draw has the canvas size), whatever
\* resizes interleaved with the sequence.
C19_EndsClear ==
    (enterCount >= 1 /\ seqTimers = 0 /\ resizeTimeout = 0) =>
        /\ lastRender.index = NumSteps - 1
        /\ lastRender.scaledW = lastRender.w
        /\ lastRender.scaledH = lastRender.h
        /\ pxIndex >= NumSteps - 1

\* All timeouts are done; the resize handler ran after the first timeout
\* firing and the second firing rendered nothing: the handler's clear draw
\* is the last.
C19_Witness ==
    /\ enterCount = 1
    /\ seqTimers = 0
    /\ resizeTimeout = 0
    /\ seqFired = 2
    /\ lastRender.by = "resize"
    /\ pxIndex = NumSteps

\* C20: for every positive surface size and image ratio the target
\* rectangle covers the whole surface: newY = 0, newX <= 0,
\* newX + newWidth >= w and newHeight >= h.
C20_Cover ==
    lastRender.by # "none" =>
        /\ lastRender.newY = 0
        /\ lastRender.newX2 <= 0
        /\ lastRender.newX2 + 2 * lastRender.newWidth >= 2 * lastRender.w
        /\ lastRender.newHeight >= lastRender.h
        /\ lastRender.newWidth >= lastRender.w

\* A 4 x 1 surface and a 1:2 image: the target is 4 x 8 and overflows the
\* surface downwards only.
C20_Witness ==
    /\ lastRender.by = "load"
    /\ lastRender.w = 4 /\ lastRender.h = 1
    /\ imgRatio = <<1, 2>>
    /\ lastRender.newWidth = 4 /\ lastRender.newHeight = 8
    /\ lastRender.newX2 = 0

====
